---- MODULE Spec2Model ----
(***************************************************************************)
(* State-machine model of src/server.js (lines 72-383): the room registry  *)
(* (rooms), the transfer coordinator (activeTransfers) and the socket.io   *)
(* broadcast groups they emit to.  Every socket.on handler, the HTTP room  *)
(* creation and the periodic sweep are one action each; an action is the   *)
(* whole run-to-completion reaction.  The variable `last` records the      *)
(* reaction just processed: its event, its arguments, the notifications it *)
(* emitted and the acknowledgement passed to its callback.                 *)
(*                                                                         *)
(* Not modelled: fileName, fileSize, fileType, startTime, creatorUserId    *)
(* and creator (data no branch reads; creator only feeds the isCreator     *)
(* flag of two acknowledgements), the CORS set-up, the read-only HTTP      *)
(* endpoints and the voting server of lines 396-466.  A socket id is used  *)
(* by one connection only (connection state recovery is not modelled).     *)
(***************************************************************************)
EXTENDS Integers, Sequences, FiniteSets, TLC

\* ------------------------------------------------------------------ bounds
MaxDrift == 1        \* milliseconds the clock may advance beside the hour jump
MaxChunkIndex == 2   \* largest chunkIndex a client sends
MaxTransfers == 2    \* transfer records alive at once

\* ------------------------------------------------------------------ constants
OneHour == 60 * 60 * 1000

Sockets == {1, 2, 3}   \* socket ids, in the order the connections are accepted
PINS == {1, 2}         \* the PINs generatePIN draws from
Users == {1, 2}        \* the userId values clients send
Hole == << -1 >>     \* an array slot that holds no chunk (undefined)
Data == {<<1>>, <<2, 3>>}
NoPin == 0
NoTid == <<0, 0>>
\* the instants at which reactions run: within MaxDrift ms of the start and of
\* the one-hour horizon
ClockValues == (0..MaxDrift) \cup {OneHour + d : d \in 0..MaxDrift}

VARIABLES
    status,           \* socket id -> "new" | "open" | "closed"
    rooms,            \* the Map rooms: PIN -> room record
    groups,           \* socket.io broadcast groups: PIN -> set of socket ids
    activeTransfers,  \* the Map activeTransfers: transferId -> transfer record
    now,              \* Date.now()
    crashed,          \* an exception escaped a handler: the process is gone
    last              \* the reaction processed last

vars == <<status, rooms, groups, activeTransfers, now, crashed, last>>

\* ------------------------------------------------------------------ helpers
Range(f) == {f[i] : i \in DOMAIN f}

\* Map.set / Map.delete on a function whose domain is the key set
MapSet(m, k, v) == [x \in DOMAIN m \cup {k} |-> IF x = k THEN v ELSE m[x]]
MapDelete(m, k) == [x \in DOMAIN m \ {k} |-> m[x]]
EmptyMap == [x \in {} |-> 0]

Connected == {s \in Sockets : status[s] = "open"}

\* a notification: event name, the connections it is delivered to, the group
\* it was addressed to (NoPin: a single connection), and its payload
Msg(name, to, room, tid, sock, user, num, data) ==
    [name |-> name, to |-> to, room |-> room, tid |-> tid, sock |-> sock,
     user |-> user, num |-> num, data |-> data]

Ack(success, error, value) == [success |-> success, error |-> error, value |-> value]
NoAck == Ack(FALSE, "no callback", <<>>)

\* a processed reaction: event name, socket, the arguments pin, transferId,
\* chunkIndex, chunkData and isLast/accept (flag), what it emitted, its callback
Event(ev, sock, pin, tid, idx, data, flag, out, ack) ==
    [ev |-> ev, sock |-> sock, pin |-> pin, tid |-> tid, idx |-> idx, data |-> data,
     flag |-> flag, out |-> out, ack |-> ack]

\* mutant: the emitting socket is not taken out of the group
WholeGroup(gs, pin, s) == gs[pin]

\* socket.to(pin): the group of pin without the emitting socket
SocketTo(gs, pin, s) == gs[pin] \ {s}
\* io.to(pin): the whole group of pin
IoTo(gs, pin) == gs[pin]
\* io.to(socketId): the connection itself, while it is connected
IoToSocket(s) == {s} \cap Connected

\* mutant: the search of the participant list finds nobody
FindNobody(ps, s) == 0

\* room.participants.find(p => p.socketId === socket.id): index, 0 if none
FindParticipant(ps, s) ==
    IF \E i \in 1..Len(ps) : ps[i].socketId = s
    THEN CHOOSE i \in 1..Len(ps) : ps[i].socketId = s /\ \A j \in 1..(i - 1) : ps[j].socketId # s
    ELSE 0

\* room.participants.filter(p => p.socketId !== socket.id)
IsOther(p, s) == p.socketId # s
FilterOut(ps, s) == SelectSeq(ps, LAMBDA p : IsOther(p, s))

\* room.participants.some(p => p.userId === userId)
StillHasUser(ps, u) == \E i \in 1..Len(ps) : ps[i].userId = u

\* ------------------------------------------------------------------ Init
Init ==
    /\ status = [s \in Sockets |-> "new"]
    /\ rooms = EmptyMap
    /\ groups = [p \in PINS |-> {}]
    /\ activeTransfers = EmptyMap
    /\ now = 0
    /\ crashed = FALSE
    /\ last = Event("init", 0, NoPin, NoTid, 0, <<>>, FALSE, {}, NoAck)

\* io.on("connection"): socket ids are fresh, taken in order
Connect(s) ==
    /\ ~crashed
    /\ status[s] = "new"
    /\ \A t \in 1..(s - 1) : status[t] # "new"
    /\ status' = [status EXCEPT ![s] = "open"]
    /\ last' = Event("connection", s, NoPin, NoTid, 0, <<>>, FALSE, {}, NoAck)
    /\ UNCHANGED <<rooms, groups, activeTransfers, now, crashed>>

\* Date.now() advances between reactions
Tick(t) ==
    /\ ~crashed
    /\ t > now
    /\ now' = t
    /\ last' = Event("tick", 0, NoPin, NoTid, 0, <<>>, FALSE, {}, NoAck)
    /\ UNCHANGED <<status, rooms, groups, activeTransfers, crashed>>

\* ------------------------------------------------------------------ rooms
\* mutant: generatePIN() taken as it comes, without the rooms.has(pin) loop
AnyPin(rs) == PINS

\* generatePIN() repeated until !rooms.has(pin): the PINs the loop can end with
UniquePins(rs) == {p \in PINS : p \notin DOMAIN rs}

NewRoom(ps, us, t) == [participants |-> ps, uniqueUsers |-> us, createdAt |-> t]

CreateRoom(s, userId) ==
    /\ ~crashed
    /\ status[s] = "open"
    /\ \E pin \in UniquePins(rooms) :
        /\ rooms' = MapSet(rooms, pin,
                NewRoom(<<[socketId |-> s, userId |-> userId]>>, {userId}, now))
        /\ groups' = [groups EXCEPT ![pin] = @ \cup {s}]
        /\ last' = Event("create_room", s, pin, NoTid, 0, <<>>, FALSE, {},
                         Ack(TRUE, "", <<pin>>))
    /\ UNCHANGED <<status, activeTransfers, now, crashed>>

\* app.post("/api/room")
HttpCreateRoom ==
    /\ ~crashed
    /\ \E pin \in UniquePins(rooms) :
        /\ rooms' = MapSet(rooms, pin, NewRoom(<<>>, {}, now))
        /\ last' = Event("http_create_room", 0, pin, NoTid, 0, <<>>, FALSE, {},
                         Ack(TRUE, "", <<pin>>))
    /\ UNCHANGED <<status, groups, activeTransfers, now, crashed>>

JoinRoom(s, pin, userId) ==
    /\ ~crashed
    /\ status[s] = "open"
    /\ IF pin \notin DOMAIN rooms
       THEN /\ last' = Event("join_room", s, pin, NoTid, 0, <<>>, FALSE, {},
                             Ack(FALSE, "Invalid PIN", <<>>))
            /\ UNCHANGED <<rooms, groups>>
       ELSE IF FindParticipant(rooms[pin].participants, s) # 0
       THEN /\ last' = Event("join_room", s, pin, NoTid, 0, <<>>, FALSE, {},
                             Ack(FALSE, "Already in room", <<>>))
            /\ UNCHANGED <<rooms, groups>>
       ELSE LET room == rooms[pin]
                joined == [room EXCEPT
                    !.participants = Append(@, [socketId |-> s, userId |-> userId]),
                    !.uniqueUsers = @ \cup {userId}]
                gs == [groups EXCEPT ![pin] = @ \cup {s}]
            IN  /\ rooms' = MapSet(rooms, pin, joined)
                /\ groups' = gs
                /\ last' = Event("join_room", s, pin, NoTid, 0, <<>>, FALSE,
                        {Msg("user_joined", SocketTo(gs, pin, s), pin, NoTid, s, userId, 0, <<>>)},
                        Ack(TRUE, "", <<Cardinality(joined.uniqueUsers)>>))
    /\ UNCHANGED <<status, activeTransfers, now, crashed>>

\* mutant: the user is dropped from uniqueUsers without looking for another
\* connection of the same user
RemoveParticipantAlways(room, s) ==
    LET participant == room.participants[FindParticipant(room.participants, s)]
    IN  [room EXCEPT
            !.participants = FilterOut(@, s),
            !.uniqueUsers = @ \ {participant.userId}]

\* the room after the participant of socket s is removed (lines 204-210, 356-362)
RemoveParticipant(room, s) ==
    LET participant == room.participants[FindParticipant(room.participants, s)]
        rest == FilterOut(room.participants, s)
    IN  [room EXCEPT
            !.participants = rest,
            !.uniqueUsers = IF StillHasUser(rest, participant.userId)
                            THEN @ ELSE @ \ {participant.userId}]

\* mutant: the emptied room is kept in the map
KeepRoom(rs, pin, room) == MapSet(rs, pin, room)

\* "Delete room if empty" (lines 216-219)
DeleteIfEmpty(rs, pin, room) ==
    IF Len(room.participants) = 0 THEN MapDelete(rs, pin) ELSE MapSet(rs, pin, room)

IsMember(rs, pin, s) ==
    /\ pin \in DOMAIN rs
    /\ FindParticipant(rs[pin].participants, s) # 0

\* mutant: the pair is reported as gone but never filtered out of the list
LeaveRoomNoRemoval(rs, gs, pin, s) ==
    IF IsMember(rs, pin, s)
    THEN [rooms |-> rs, groups |-> gs,
          out |-> {Msg("user_left", SocketTo(gs, pin, s), pin, NoTid, s,
                       rs[pin].participants[FindParticipant(rs[pin].participants, s)].userId,
                       0, <<>>)}]
    ELSE [rooms |-> rs, groups |-> gs, out |-> {}]

\* the leave_room handler as a function of the state it reads:
\* the room map, the groups and the notifications after it
LeaveRoomResult(rs, gs, pin, s) ==
    IF IsMember(rs, pin, s)
    THEN LET participant == rs[pin].participants[FindParticipant(rs[pin].participants, s)]
             left == RemoveParticipant(rs[pin], s)
             gs2 == [gs EXCEPT ![pin] = @ \ {s}]
         IN  [rooms |-> DeleteIfEmpty(rs, pin, left),
              groups |-> gs2,
              out |-> {Msg("user_left", SocketTo(gs2, pin, s), pin, NoTid, s,
                           participant.userId, 0, <<>>)}]
    ELSE [rooms |-> rs, groups |-> gs, out |-> {}]

LeaveRoom(s, pin) ==
    /\ ~crashed
    /\ status[s] = "open"
    /\ LET r == LeaveRoomResult(rooms, groups, pin, s)
       IN  /\ rooms' = r.rooms
           /\ groups' = r.groups
           /\ last' = Event("leave_room", s, pin, NoTid, 0, <<>>, FALSE, r.out, NoAck)
    /\ UNCHANGED <<status, activeTransfers, now, crashed>>

GetRoomInfo(s, pin) ==
    /\ ~crashed
    /\ status[s] = "open"
    /\ last' = Event("get_room_info", s, pin, NoTid, 0, <<>>, FALSE, {},
            IF pin \notin DOMAIN rooms
            THEN Ack(FALSE, "Room not found", <<>>)
            ELSE Ack(TRUE, "", <<Cardinality(rooms[pin].uniqueUsers), rooms[pin].createdAt>>))
    /\ UNCHANGED <<status, rooms, groups, activeTransfers, now, crashed>>

\* mutant: a room exactly one hour old counts as expired
ExpiredPinsInclusive(rs, t) == {p \in DOMAIN rs : rs[p].createdAt <= t - OneHour}

\* cleanupExpiredRooms, run by setInterval
ExpiredPins(rs, t) == {p \in DOMAIN rs : rs[p].createdAt < t - OneHour}

Sweep ==
    /\ ~crashed
    /\ rooms' = [p \in DOMAIN rooms \ ExpiredPins(rooms, now) |-> rooms[p]]
    /\ last' = Event("sweep", 0, NoPin, NoTid, 0, <<>>, FALSE, {}, NoAck)
    /\ UNCHANGED <<status, groups, activeTransfers, now, crashed>>

\* mutant: the disconnect stops at the first room that lists the socket
DisconnectFirstRoom(rs, s) ==
    LET hit == {p \in DOMAIN rs : IsMember(rs, p, s)}
    IN  IF hit = {} THEN rs
        ELSE LET p == CHOOSE x \in hit : \A y \in hit : x <= y
             IN  DeleteIfEmpty(rs, p, RemoveParticipant(rs[p], s))

\* mutant: the rooms the disconnect empties are kept in the map
DisconnectRoomsKeepEmpty(rs, s) ==
    [p \in DOMAIN rs |-> IF IsMember(rs, p, s) THEN RemoveParticipant(rs[p], s) ELSE rs[p]]

\* socket.on("disconnect"), lines 352-372: the same removal in every room that
\* lists the socket (rooms.delete while iterating rooms.entries() is safe)
DisconnectRooms(rs, s) ==
    LET hit == {p \in DOMAIN rs : IsMember(rs, p, s)}
        emptied == {p \in hit : Len(RemoveParticipant(rs[p], s).participants) = 0}
    IN  [p \in DOMAIN rs \ emptied |->
            IF p \in hit THEN RemoveParticipant(rs[p], s) ELSE rs[p]]

\* socket.io takes a closing socket out of every group before "disconnect" fires
LeaveAll(gs, s) == [p \in DOMAIN gs |-> gs[p] \ {s}]

\* lines 374-381: the transfers the disconnect removes and those it keeps
OwnTransfers(ts, s) == {t \in DOMAIN ts : ts[t].from = s}
\* mutant: a disconnect cancels every transfer, whoever its sender is
CancelAll(ts, s) == EmptyMap
\* mutant: the records of the closing sender are left in the map
KeepTransfers(ts, s) == ts

CancelForSender(ts, s) == [t \in DOMAIN ts \ OwnTransfers(ts, s) |-> ts[t]]

Disconnect(s) ==
    /\ ~crashed
    /\ status[s] = "open"
    /\ status' = [status EXCEPT ![s] = "closed"]
    /\ LET gs == LeaveAll(groups, s)
           userLeft == {Msg("user_left", SocketTo(gs, p, s), p, NoTid, s,
                            rooms[p].participants[FindParticipant(rooms[p].participants, s)].userId,
                            0, <<>>) : p \in {q \in DOMAIN rooms : IsMember(rooms, q, s)}}
           cancelled == {Msg("transfer_cancelled", IoTo(gs, activeTransfers[t].pin),
                             activeTransfers[t].pin, t, 0, 0, 0, <<>>)
                         : t \in OwnTransfers(activeTransfers, s)}
       IN  /\ groups' = gs
           /\ rooms' = DisconnectRooms(rooms, s)
           /\ activeTransfers' = CancelForSender(activeTransfers, s)
           /\ last' = Event("disconnect", s, NoPin, NoTid, 0, <<>>, FALSE,
                            userLeft \cup cancelled, NoAck)
    /\ UNCHANGED <<now, crashed>>

\* ------------------------------------------------------------------ transfers
\* `${socket.id}_${Date.now()}`
TransferId(s, t) == <<s, t>>

\* room.participants.filter(p => p.socketId !== socket.id).map(p => p.socketId)
Recipients(ps, s) ==
    LET others == FilterOut(ps, s)
    IN  [i \in 1..Len(others) |-> others[i].socketId]

\* eachOnce is history, not program state: so far the sender has submitted no
\* chunk index twice and has set isLast on at most one chunk
NewTransfer(s, pin, recipients) ==
    [from |-> s, pin |-> pin, chunks |-> <<>>, totalChunks |-> 0,
     recipients |-> recipients, eachOnce |-> TRUE]

InitiateFileTransfer(s, pin) ==
    /\ ~crashed
    /\ status[s] = "open"
    /\ IF pin \notin DOMAIN rooms
       THEN /\ last' = Event("initiate_file_transfer", s, pin, NoTid, 0, <<>>, FALSE, {},
                             Ack(FALSE, "Room not found", <<>>))
            /\ UNCHANGED activeTransfers
       ELSE LET transferId == TransferId(s, now)
                recipients == Recipients(rooms[pin].participants, s)
            IN  IF Len(recipients) = 0
                THEN /\ last' = Event("initiate_file_transfer", s, pin, NoTid, 0, <<>>, FALSE, {},
                                      Ack(FALSE, "No recipients in room", <<>>))
                     /\ UNCHANGED activeTransfers
                ELSE /\ Cardinality(DOMAIN activeTransfers \cup {transferId}) <= MaxTransfers
                     /\ activeTransfers' =
                            MapSet(activeTransfers, transferId, NewTransfer(s, pin, recipients))
                     /\ last' = Event("initiate_file_transfer", s, pin, transferId, 0, <<>>, FALSE,
                            {Msg("incoming_file", SocketTo(groups, pin, s), pin, transferId,
                                 s, 0, 0, <<>>)},
                            Ack(TRUE, "", transferId))
    /\ UNCHANGED <<status, rooms, groups, now, crashed>>

\* transfer.chunks[chunkIndex] = chunkData on a sparse array (index from 0)
StoreChunk(chunks, chunkIndex, chunkData) ==
    [i \in 1..(IF chunkIndex + 1 > Len(chunks) THEN chunkIndex + 1 ELSE Len(chunks)) |->
        IF i = chunkIndex + 1 THEN chunkData
        ELSE IF i <= Len(chunks) THEN chunks[i] ELSE Hole]

\* transfer.chunks.filter(chunk => chunk !== undefined).length
ReceivedChunks(chunks) == Cardinality({i \in 1..Len(chunks) : chunks[i] # Hole})

\* Math.round((receivedChunks / (transfer.totalChunks || 1)) * 100)
Progress(received, totalChunks) ==
    LET d == IF totalChunks = 0 THEN 1 ELSE totalChunks
    IN  (200 * received + d) \div (2 * d)

\* "If transfer complete" (line 288)
IsComplete(isLast, received, totalChunks) == isLast /\ received = totalChunks

\* Buffer.from(chunk): a copy of the bytes
BufferFrom(chunk) == [i \in 1..Len(chunk) |-> chunk[i] % 256]

\* Buffer.concat(transfer.chunks.map(chunk => Buffer.from(chunk)))
RECURSIVE BufferConcat(_)
BufferConcat(chunks) ==
    IF Len(chunks) = 0 THEN <<>>
    ELSE BufferFrom(Head(chunks)) \o BufferConcat(Tail(chunks))

\* Buffer.from(undefined) and Buffer.concat over an empty slot throw a TypeError
ConcatThrows(chunks) == \E i \in 1..Len(chunks) : chunks[i] = Hole

\* mutant: the sender check dropped, only unknown ids are refused
InvalidTransferUnknownOnly(ts, transferId, s) == transferId \notin DOMAIN ts

\* !transfer || transfer.from !== socket.id
InvalidTransfer(ts, transferId, s) ==
    \/ transferId \notin DOMAIN ts
    \/ transferId \in DOMAIN ts /\ ts[transferId].from # s

\* mutant: the file goes to the recipients snapshotted at initiation
SnapshotReceivers(gs, transfer, s) == Range(transfer.recipients)

\* socket.to(transfer.pin).emit("file_received"): who the file is delivered to
FileReceivers(gs, transfer, s) == SocketTo(gs, transfer.pin, s)

FileChunk(s, transferId, chunkIndex, chunkData, isLast) ==
    /\ ~crashed
    /\ status[s] = "open"
    /\ IF InvalidTransfer(activeTransfers, transferId, s)
       THEN /\ last' = Event("file_chunk", s, NoPin, transferId, chunkIndex, chunkData, isLast,
                    {Msg("transfer_error", {s}, NoPin, transferId, 0, 0, 0, <<>>)}, NoAck)
            /\ UNCHANGED <<activeTransfers, crashed>>
       ELSE LET transfer == activeTransfers[transferId]
                chunks == StoreChunk(transfer.chunks, chunkIndex, chunkData)
                totalChunks == IF isLast THEN chunkIndex + 1 ELSE transfer.totalChunks
                stored == [transfer EXCEPT
                    !.chunks = chunks,
                    !.totalChunks = totalChunks,
                    !.eachOnce = /\ @
                                 /\ ~(chunkIndex + 1 <= Len(transfer.chunks)
                                      /\ transfer.chunks[chunkIndex + 1] # Hole)
                                 /\ (isLast => transfer.totalChunks = 0)]
                receivedChunks == ReceivedChunks(chunks)
                progress == Msg("upload_progress", {s}, NoPin, transferId, 0, 0,
                                Progress(receivedChunks, totalChunks), <<>>)
            IN  IF ~IsComplete(isLast, receivedChunks, totalChunks)
                THEN /\ activeTransfers' = MapSet(activeTransfers, transferId, stored)
                     /\ last' = Event("file_chunk", s, transfer.pin, transferId, chunkIndex,
                                      chunkData, isLast, {progress}, NoAck)
                     /\ UNCHANGED crashed
                ELSE IF ConcatThrows(chunks)
                THEN \* the TypeError leaves the handler: nothing after line 289 runs
                     /\ activeTransfers' = MapSet(activeTransfers, transferId, stored)
                     /\ last' = Event("file_chunk", s, transfer.pin, transferId, chunkIndex,
                                      chunkData, isLast, {progress}, NoAck)
                     /\ crashed' = TRUE
                ELSE /\ activeTransfers' = MapDelete(activeTransfers, transferId)
                     /\ last' = Event("file_chunk", s, transfer.pin, transferId, chunkIndex,
                            chunkData, isLast,
                            {progress,
                             Msg("file_received", FileReceivers(groups, transfer, s),
                                 transfer.pin, transferId, s, 0, 0, BufferConcat(chunks)),
                             Msg("transfer_complete", {s}, NoPin, transferId, 0, 0, 0, <<>>)},
                            NoAck)
                     /\ UNCHANGED crashed
    /\ UNCHANGED <<status, rooms, groups, now>>

RespondToFile(s, transferId, accept) ==
    /\ ~crashed
    /\ status[s] = "open"
    /\ last' = Event("respond_to_file", s, NoPin, transferId, 0, <<>>, accept,
            IF transferId \notin DOMAIN activeTransfers THEN {}
            ELSE IF accept
            THEN {Msg("download_ready", {s}, NoPin, transferId, 0, 0, 0, <<>>)}
            ELSE {Msg("transfer_rejected", IoToSocket(activeTransfers[transferId].from),
                      NoPin, transferId, s, 0, 0, <<>>)},
            IF transferId \notin DOMAIN activeTransfers
            THEN Ack(FALSE, "Transfer not found", <<>>)
            ELSE Ack(TRUE, "", <<>>))
    /\ UNCHANGED <<status, rooms, groups, activeTransfers, now, crashed>>

\* ------------------------------------------------------------------ specifications
\* the transfer ids that can have been issued by now
TransferIds == {TransferId(s, t) : s \in Sockets, t \in {c \in ClockValues : c <= now}}
ChunkIndexes == 0..MaxChunkIndex
Drift == {t \in ClockValues : t < OneHour}
\* the one-hour horizon of a room created at the start, and the millisecond after
Late == {OneHour, OneHour + 1}
\* the transfer ids a client has been told: the active ones and those of the last reaction
KnownIds ==
    (DOMAIN activeTransfers \cup {last.tid} \cup {m.tid : m \in last.out}) \ {NoTid}

Next ==
    \/ \E s \in Sockets : Connect(s)
    \/ \E t \in ClockValues : Tick(t)
    \/ \E s \in Sockets, u \in Users : CreateRoom(s, u)
    \/ HttpCreateRoom
    \/ \E s \in Sockets, p \in PINS, u \in Users : JoinRoom(s, p, u)
    \/ \E s \in Sockets, p \in PINS : LeaveRoom(s, p)
    \/ \E s \in Sockets, p \in PINS : GetRoomInfo(s, p)
    \/ Sweep
    \/ \E s \in Sockets : Disconnect(s)
    \/ \E s \in Sockets, p \in PINS : InitiateFileTransfer(s, p)
    \/ \E s \in Sockets, t \in TransferIds, i \in ChunkIndexes, d \in Data, b \in BOOLEAN :
            FileChunk(s, t, i, d, b)
    \/ \E s \in Sockets, t \in TransferIds, b \in BOOLEAN : RespondToFile(s, t, b)

\* every reaction, from the state after construction
Spec == Init /\ [][Next]_vars

\* Membership: three connections and the room events, the clock standing still
NextMembers ==
    \/ \E s \in Sockets : Connect(s)
    \/ \E s \in Sockets, u \in Users : CreateRoom(s, u)
    \/ HttpCreateRoom
    \/ \E s \in Sockets, p \in PINS, u \in Users : JoinRoom(s, p, u)
    \/ \E s \in Sockets, p \in PINS : LeaveRoom(s, p)
    \/ \E s \in Sockets, p \in PINS : GetRoomInfo(s, p)
    \/ \E s \in Sockets : Disconnect(s)

SpecMembers == Init /\ [][NextMembers]_vars

\* Room lifecycle: two connections, the room events, the clock and the sweep
NextRooms ==
    \/ \E s \in {1, 2} : Connect(s)
    \/ \E t \in ClockValues : Tick(t)
    \/ \E s \in Sockets, u \in Users : CreateRoom(s, u)
    \/ HttpCreateRoom
    \/ \E s \in Sockets, p \in PINS, u \in Users : JoinRoom(s, p, u)
    \/ \E s \in Sockets, p \in PINS : LeaveRoom(s, p)
    \/ \E s \in Sockets, p \in PINS : GetRoomInfo(s, p)
    \/ Sweep
    \/ \E s \in Sockets : Disconnect(s)

SpecRooms == Init /\ [][NextRooms]_vars

\* The state after connection(1), connection(2), connection(3),
\* create_room by 1 (answered with PIN 1) and join_room(1) by 2
InitRoom ==
    /\ status = [s \in Sockets |-> "open"]
    /\ rooms = MapSet(EmptyMap, 1,
            NewRoom(<<[socketId |-> 1, userId |-> 1], [socketId |-> 2, userId |-> 2]>>,
                    {1, 2}, 0))
    /\ groups = [p \in PINS |-> IF p = 1 THEN {1, 2} ELSE {}]
    /\ activeTransfers = EmptyMap
    /\ now = 0
    /\ crashed = FALSE
    /\ last = Event("join_room", 2, 1, NoTid, 0, <<>>, FALSE,
                    {Msg("user_joined", {1}, 1, NoTid, 2, 2, 0, <<>>)},
                    Ack(TRUE, "", <<2>>))

\* Chunk accumulation: one transfer at a time in the room of InitRoom, every
\* (chunkIndex, chunkData, isLast) a connection can send
NextChunks ==
    \/ \E s \in Sockets, p \in PINS :
            activeTransfers = EmptyMap /\ InitiateFileTransfer(s, p)
    \/ \E s \in Sockets, t \in TransferIds, i \in ChunkIndexes, d \in Data, b \in BOOLEAN :
            FileChunk(s, t, i, d, b)

SpecChunks == InitRoom /\ [][NextChunks]_vars

\* Transfers beside membership changes: from InitRoom, joins, leaves,
\* disconnects and single-chunk transfers, one transfer record at a time (a
\* sender may start its next transfer in the millisecond of its previous one)
NextTransfers ==
    \/ \E t \in Drift : Tick(t)
    \/ \E s \in Sockets, p \in PINS : JoinRoom(s, p, 1)
    \/ \E s \in Sockets, p \in PINS : LeaveRoom(s, p)
    \/ \E s \in Sockets : Disconnect(s)
    \/ \E s \in Sockets, p \in PINS :
            /\ DOMAIN activeTransfers \subseteq {TransferId(s, now)}
            /\ InitiateFileTransfer(s, p)
    \/ \E s \in Sockets, t \in KnownIds, b \in BOOLEAN : FileChunk(s, t, 0, <<1>>, b)
    \/ \E s \in Sockets, t \in KnownIds, b \in BOOLEAN : RespondToFile(s, t, b)

SpecTransfers == InitRoom /\ [][NextTransfers]_vars

\* Cancellation: from InitRoom, up to MaxTransfers single-chunk transfers at
\* once in room 1, with disconnects as the only membership change
NextCancel ==
    \/ \E t \in Drift : Tick(t)
    \/ \E s \in Sockets : Disconnect(s)
    \/ \E s \in Sockets : InitiateFileTransfer(s, 1)
    \/ \E s \in Sockets, t \in KnownIds, b \in BOOLEAN : FileChunk(s, t, 0, <<1>>, b)
    \/ \E s \in Sockets, t \in KnownIds, b \in BOOLEAN : RespondToFile(s, t, b)

SpecCancel == InitRoom /\ [][NextCancel]_vars

\* The state after connection(1), connection(2), create_room by 1 (answered
\* with PIN 1) and join_room(1) by 2; no third connection arrives
InitPair ==
    /\ status = [s \in Sockets |-> IF s = 3 THEN "new" ELSE "open"]
    /\ rooms = MapSet(EmptyMap, 1,
            NewRoom(<<[socketId |-> 1, userId |-> 1], [socketId |-> 2, userId |-> 2]>>,
                    {1, 2}, 0))
    /\ groups = [p \in PINS |-> IF p = 1 THEN {1, 2} ELSE {}]
    /\ activeTransfers = EmptyMap
    /\ now = 0
    /\ crashed = FALSE
    /\ last = Event("join_room", 2, 1, NoTid, 0, <<>>, FALSE,
                    {Msg("user_joined", {1}, 1, NoTid, 2, 2, 0, <<>>)},
                    Ack(TRUE, "", <<2>>))

\* Orphaned transfers: from InitPair, the clock up to the one-hour horizon, the
\* sweep, room creation and every membership change beside single-chunk
\* transfers, one transfer record at a time
NextOrphans ==
    \/ \E t \in Late : Tick(t)
    \/ Sweep
    \/ \E s \in Sockets : CreateRoom(s, 1)
    \/ \E s \in Sockets, p \in PINS : JoinRoom(s, p, 1)
    \/ \E s \in Sockets, p \in PINS : LeaveRoom(s, p)
    \/ \E s \in Sockets : Disconnect(s)
    \/ \E s \in Sockets, p \in PINS :
            /\ DOMAIN activeTransfers \subseteq {TransferId(s, now)}
            /\ InitiateFileTransfer(s, p)
    \/ \E s \in Sockets, t \in KnownIds, b \in BOOLEAN : FileChunk(s, t, 0, <<1>>, b)
    \/ \E s \in Sockets, t \in KnownIds, b \in BOOLEAN : RespondToFile(s, t, b)

SpecOrphans == InitPair /\ [][NextOrphans]_vars

\* ------------------------------------------------------------------ claims
\* what a file_chunk event leaves in the chunk array, told from the array
\* before it: the populated indices, and their payloads in ascending order
PopulatedAfter(chunks, idx) ==
    {i \in ChunkIndexes : i = idx \/ (i < Len(chunks) /\ chunks[i + 1] # Hole)}

PayloadAfter(chunks, idx, data, i) == IF i = idx THEN data ELSE chunks[i + 1]

RECURSIVE AscendingConcat(_, _, _, _)
AscendingConcat(S, chunks, idx, data) ==
    IF S = {} THEN <<>>
    ELSE LET m == CHOOSE x \in S : \A y \in S : x <= y
         IN  PayloadAfter(chunks, idx, data, m) \o AscendingConcat(S \ {m}, chunks, idx, data)

\* the sender has submitted exactly the chunks 0..N-1, each once, in some
\* order, with isLast on chunk N-1 only
SubmittedAllOnce(tr) ==
    /\ tr.eachOnce
    /\ tr.totalChunks >= 1
    /\ Len(tr.chunks) = tr.totalChunks
    /\ \A i \in 1..Len(tr.chunks) : tr.chunks[i] # Hole

\* C1: whatever the arrival order of chunks 0..N-1 (each submitted once by the
\* sender, isLast on chunk N-1 only), once all N have been processed the
\* transfer has completed, so its record is gone: no record is left whose
\* sender has submitted all its chunks.
C1_AnyOrderCompletes ==
    \A t \in DOMAIN activeTransfers : ~SubmittedAllOnce(activeTransfers[t])

\* C2: a file_chunk of the sender with isLast set, after which the number of
\* populated indices equals chunkIndex + 1, emits file_received carrying the
\* stored payloads concatenated in ascending index order, emits
\* transfer_complete to the sender and deletes the record, all in that reaction.
C2_CompletionDelivers ==
    [][\A t \in DOMAIN activeTransfers :
        ( /\ last'.ev = "file_chunk"
          /\ last'.tid = t
          /\ last'.sock = activeTransfers[t].from
          /\ last'.flag
          /\ Cardinality(PopulatedAfter(activeTransfers[t].chunks, last'.idx)) = last'.idx + 1 )
        => /\ t \notin DOMAIN activeTransfers'
           /\ \E m \in last'.out :
                /\ m.name = "file_received"
                /\ m.tid = t
                /\ m.data = AscendingConcat(
                        PopulatedAfter(activeTransfers[t].chunks, last'.idx),
                        activeTransfers[t].chunks, last'.idx, last'.data)
           /\ \E m \in last'.out :
                m.name = "transfer_complete" /\ m.tid = t /\ m.to = {last'.sock}
      ]_vars

\* C4: a file_chunk from a connection that is not the registered sender of the
\* transfer it names, or that names an unknown transfer id, leaves every
\* transfer record as it was (chunks, totalChunks, existence) and is answered
\* with transfer_error to that connection alone.
C4_OnlySenderAdvances ==
    [][( /\ last'.ev = "file_chunk"
         /\ \/ last'.tid \notin DOMAIN activeTransfers
            \/ activeTransfers[last'.tid].from # last'.sock )
        => /\ activeTransfers' = activeTransfers
           /\ last'.out = {Msg("transfer_error", {last'.sock}, NoPin, last'.tid, 0, 0, 0, <<>>)}
      ]_vars

\* C4 witness: a connection other than the sender has just sent the chunk
\* flagged isLast for a live transfer that already holds chunks
C4_Witness ==
    /\ last.ev = "file_chunk"
    /\ last.flag
    /\ last.tid \in DOMAIN activeTransfers
    /\ activeTransfers[last.tid].from # last.sock
    /\ Len(activeTransfers[last.tid].chunks) >= 1

\* the distinct user ids among the (connection, user) pairs of a participant list
DistinctUsers(ps) == {ps[i].userId : i \in 1..Len(ps)}

\* C3: for every live room the size of uniqueUsers equals the number of
\* distinct user ids among the pairs in its participant list, and that is the
\* count a successful get_room_info reports.
C3_DistinctUserCount ==
    /\ \A p \in DOMAIN rooms :
        Cardinality(rooms[p].uniqueUsers)
            = Cardinality(DistinctUsers(rooms[p].participants))
    /\ (last.ev = "get_room_info" /\ last.ack.success)
        => last.ack.value[1]
            = Cardinality(DistinctUsers(rooms[last.pin].participants))

\* C3 witness: a connection has just left or disconnected while another
\* connection of the same user stays in the room, beside a second user
C3_Witness ==
    \E m \in last.out :
        /\ m.name = "user_left"
        /\ m.room \in DOMAIN rooms
        /\ m.user \in DistinctUsers(rooms[m.room].participants)
        /\ Cardinality(rooms[m.room].uniqueUsers) = 2

\* C5 (as claimed): no room with an empty participant list is in the room map.
C5_NoEmptyRoom == \A p \in DOMAIN rooms : Len(rooms[p].participants) > 0

\* C5 (amended): a room with an empty participant list is in the room map only
\* as a room the HTTP creation has just made or as such a room that was empty
\* before the reaction too; hence the reaction that removes the last
\* (connection, user) pair of a room deletes the room.
C5_EmptyOnlyFromHttp ==
    [][\A p \in DOMAIN rooms' :
        Len(rooms'[p].participants) = 0
        => \/ last'.ev = "http_create_room" /\ last'.pin = p /\ p \notin DOMAIN rooms
           \/ p \in DOMAIN rooms /\ Len(rooms[p].participants) = 0
      ]_vars

\* C5 witness: the last pair of a room has just been removed and the room is
\* gone, while a room made over HTTP that nobody joined is in the map
C5_Witness ==
    /\ \E m \in last.out : m.name = "user_left" /\ m.room \notin DOMAIN rooms
    /\ \E q \in DOMAIN rooms : Len(rooms[q].participants) = 0

\* C8: a creation, by create_room or over HTTP, answers with a PIN that was not
\* a key of the room map, adds exactly that key and leaves every room that was
\* live as it was.
C8_FreshPin ==
    [][last'.ev \in {"create_room", "http_create_room"}
        => /\ last'.pin \notin DOMAIN rooms
           /\ last'.ack.value = <<last'.pin>>
           /\ DOMAIN rooms' = DOMAIN rooms \cup {last'.pin}
           /\ \A p \in DOMAIN rooms : rooms'[p] = rooms[p]
      ]_vars

\* C8 witness: a PIN is created again after the sweep deleted the populated
\* room that held it (its broadcast group still has a connection the new room
\* does not list), while another room is live
C8_Witness ==
    /\ last.ev \in {"create_room", "http_create_room"}
    /\ Cardinality(DOMAIN rooms) = 2
    /\ \E s \in groups[last.pin] : ~IsMember(rooms, last.pin, s)

\* C6: the disconnect of a connection deletes exactly the transfers it is the
\* sender of and emits transfer_cancelled for each of them, and for no other
\* id, to the group of that transfer's PIN; the other records are unchanged.
\* From then on a file_chunk naming an id of the closed sender is answered
\* with transfer_error and a respond_to_file with "Transfer not found".
C6_DisconnectCancels ==
    [][/\ last'.ev = "disconnect"
            => /\ DOMAIN activeTransfers'
                    = {t \in DOMAIN activeTransfers : activeTransfers[t].from # last'.sock}
               /\ \A t \in DOMAIN activeTransfers' : activeTransfers'[t] = activeTransfers[t]
               /\ \A t \in DOMAIN activeTransfers :
                    activeTransfers[t].from = last'.sock
                    => \E m \in last'.out :
                        /\ m.name = "transfer_cancelled"
                        /\ m.tid = t
                        /\ m.room = activeTransfers[t].pin
                        /\ m.to = groups'[activeTransfers[t].pin]
               /\ \A m \in last'.out :
                    m.name = "transfer_cancelled"
                    => /\ m.tid \in DOMAIN activeTransfers
                       /\ activeTransfers[m.tid].from = last'.sock
       /\ (last'.ev = "file_chunk" /\ status'[last'.tid[1]] = "closed")
            => last'.out = {Msg("transfer_error", {last'.sock}, NoPin, last'.tid, 0, 0, 0, <<>>)}
       /\ (last'.ev = "respond_to_file" /\ status'[last'.tid[1]] = "closed")
            => /\ last'.ack = Ack(FALSE, "Transfer not found", <<>>)
               /\ last'.out = {}
      ]_vars

\* C6 witness: a respond_to_file has just named a transfer whose sender has
\* disconnected, while a transfer of another sender is still active
C6_Witness ==
    /\ last.ev = "respond_to_file"
    /\ status[last.tid[1]] = "closed"
    /\ activeTransfers # EmptyMap

LeaveOnce(pin, s) == LeaveRoomResult(rooms, groups, pin, s)
LeaveTwice(pin, s) ==
    LeaveRoomResult(LeaveOnce(pin, s).rooms, LeaveOnce(pin, s).groups, pin, s)

\* C9: from every reachable state and for every (PIN, connection), the second
\* of two leave_room in a row changes neither the room map nor the groups and
\* emits nothing, so two have the effect of one; a leave_room for an absent
\* room or a connection the room does not list changes nothing and emits
\* nothing; and no leave_room reaction touches the transfer map.
C9_LeaveIdempotent ==
    /\ [](\A pin \in PINS, s \in Sockets :
            /\ LeaveTwice(pin, s).rooms = LeaveOnce(pin, s).rooms
            /\ LeaveTwice(pin, s).groups = LeaveOnce(pin, s).groups
            /\ LeaveTwice(pin, s).out = {}
            /\ ~IsMember(rooms, pin, s)
                => /\ LeaveOnce(pin, s).rooms = rooms
                   /\ LeaveOnce(pin, s).groups = groups
                   /\ LeaveOnce(pin, s).out = {})
    /\ [][last'.ev = "leave_room"
            => /\ activeTransfers' = activeTransfers
               /\ rooms' = LeaveOnce(last'.pin, last'.sock).rooms
               /\ last'.out = LeaveOnce(last'.pin, last'.sock).out
         ]_vars

\* C9 witness: a member has just left a room (user_left was emitted) while a
\* transfer is active
C9_Witness ==
    /\ last.ev = "leave_room"
    /\ last.out # {}
    /\ activeTransfers # EmptyMap

\* the connection ids of the participants other than s
OtherSockets(ps, s) == {ps[i].socketId : i \in 1..Len(ps)} \ {s}

\* C10: initiate_file_transfer fails with "Room not found" without a live room
\* and with "No recipients in room" when nobody but the caller is listed,
\* creating no record, emitting nothing and leaving the room map alone; on
\* success the transfer map gains exactly one record, under an id that was
\* not in it, with no chunks, total 0 and the other participants as recipients.
C10_InitiateOutcome ==
    [][last'.ev = "initiate_file_transfer"
        => /\ rooms' = rooms
           /\ IF last'.pin \notin DOMAIN rooms
              THEN /\ last'.ack = Ack(FALSE, "Room not found", <<>>)
                   /\ activeTransfers' = activeTransfers
                   /\ last'.out = {}
              ELSE IF OtherSockets(rooms[last'.pin].participants, last'.sock) = {}
              THEN /\ last'.ack = Ack(FALSE, "No recipients in room", <<>>)
                   /\ activeTransfers' = activeTransfers
                   /\ last'.out = {}
              ELSE /\ last'.ack = Ack(TRUE, "", last'.tid)
                   /\ last'.tid \notin DOMAIN activeTransfers
                   /\ DOMAIN activeTransfers' = DOMAIN activeTransfers \cup {last'.tid}
                   /\ \A t \in DOMAIN activeTransfers : activeTransfers'[t] = activeTransfers[t]
                   /\ activeTransfers'[last'.tid].chunks = <<>>
                   /\ activeTransfers'[last'.tid].totalChunks = 0
                   /\ Range(activeTransfers'[last'.tid].recipients)
                        = OtherSockets(rooms[last'.pin].participants, last'.sock)
      ]_vars

\* the connection ids of a participant list, one per listed pair
SocketIds(ps) == {ps[i].socketId : i \in 1..Len(ps)}

\* C11: a join_room naming a PIN without a live room, or sent by a connection
\* the room already lists, is answered with an error, leaves the room map
\* unchanged and notifies nobody; and no connection id is listed twice in a
\* participant list (one user id may be listed under several connections).
C11_JoinRefused ==
    /\ [](\A p \in DOMAIN rooms :
            Cardinality(SocketIds(rooms[p].participants)) = Len(rooms[p].participants))
    /\ [][last'.ev = "join_room"
            => /\ last'.pin \notin DOMAIN rooms
                    => /\ last'.ack = Ack(FALSE, "Invalid PIN", <<>>)
                       /\ rooms' = rooms
                       /\ last'.out = {}
               /\ (last'.pin \in DOMAIN rooms
                    /\ last'.sock \in SocketIds(rooms[last'.pin].participants))
                    => /\ last'.ack = Ack(FALSE, "Already in room", <<>>)
                       /\ rooms' = rooms
                       /\ last'.out = {}
         ]_vars

\* C11 witness: a connection has just been refused a second join of a room
\* that lists one user id under two connections
C11_Witness ==
    /\ last.ev = "join_room"
    /\ last.ack.error = "Already in room"
    /\ Len(rooms[last.pin].participants) = 3
    /\ Cardinality(DistinctUsers(rooms[last.pin].participants)) = 2

\* C12: a key leaves the transfer map only in the file_chunk reaction of its
\* sender that delivers the file or in the disconnect of its sender;
\* respond_to_file, join_room, leave_room, create_room, the sweep and the
\* clock leave the transfer map as it was, a disconnect leaves the records of
\* the other senders as they were and an initiation those under other ids; so
\* every record, rejected or with its room gone, has a connected sender whose
\* next chunk flagged isLast completes it.
C12_RemovedOnlyBySender ==
    /\ [](\A t \in DOMAIN activeTransfers :
            /\ status[activeTransfers[t].from] = "open"
            /\ ~InvalidTransfer(activeTransfers, t, activeTransfers[t].from)
            /\ IsComplete(TRUE,
                    ReceivedChunks(StoreChunk(activeTransfers[t].chunks,
                                              Len(activeTransfers[t].chunks), <<1>>)),
                    Len(activeTransfers[t].chunks) + 1)
                \/ \E i \in 1..Len(activeTransfers[t].chunks) :
                        activeTransfers[t].chunks[i] = Hole)
    /\ [][ /\ \A t \in DOMAIN activeTransfers \ DOMAIN activeTransfers' :
                \/ /\ last'.ev = "file_chunk"
                   /\ last'.tid = t
                   /\ last'.sock = activeTransfers[t].from
                   /\ \E m \in last'.out : m.name = "file_received" /\ m.tid = t
                \/ /\ last'.ev = "disconnect"
                   /\ last'.sock = activeTransfers[t].from
           /\ last'.ev \in {"respond_to_file", "join_room", "leave_room", "create_room",
                             "sweep", "tick"}
                => activeTransfers' = activeTransfers
           /\ last'.ev = "disconnect"
                => \A t \in {x \in DOMAIN activeTransfers :
                                    activeTransfers[x].from # last'.sock} :
                        /\ t \in DOMAIN activeTransfers'
                        /\ activeTransfers'[t] = activeTransfers[t]
           /\ last'.ev = "initiate_file_transfer"
                => \A t \in DOMAIN activeTransfers \ {last'.tid} :
                        /\ t \in DOMAIN activeTransfers'
                        /\ activeTransfers'[t] = activeTransfers[t]
         ]_vars

\* C12 witness: the sender has just completed a transfer whose room the sweep
\* had deleted (the group of its PIN still delivered the file)
C12_Witness ==
    /\ last.ev = "file_chunk"
    /\ \E m \in last.out :
        m.name = "file_received" /\ m.room \notin DOMAIN rooms /\ m.to # {}

\* C13 (as claimed): when a disconnect emits transfer_cancelled, the room of
\* the transfer's PIN is in the room map (as the room cleanup has left it).
C13_RoomStillPresent ==
    [][\A m \in last'.out :
        (last'.ev = "disconnect" /\ m.name = "transfer_cancelled")
        => m.room \in DOMAIN rooms'
      ]_vars

\* C13 (amended): a disconnect cleans the rooms up first and then emits
\* transfer_cancelled to the broadcast group of the transfer's PIN, the closed
\* connection no longer in it; the room of that PIN is in the room map at that
\* moment exactly when it was live before the disconnect and was not emptied
\* by it, that is, it did not list the closing connection alone.
C13_CancelAfterRoomCleanup ==
    [][\A m \in last'.out :
        (last'.ev = "disconnect" /\ m.name = "transfer_cancelled")
        => /\ m.to = groups[m.room] \ {last'.sock}
           /\ m.room \in DOMAIN rooms'
                <=> /\ m.room \in DOMAIN rooms
                    /\ SocketIds(rooms[m.room].participants) # {last'.sock}
      ]_vars

\* C13 witness: the sender of a transfer has just disconnected as the last
\* participant of the transfer's room: user_left and transfer_cancelled went
\* out for that PIN and the room is gone
C13_Witness ==
    /\ last.ev = "disconnect"
    /\ \E m \in last.out, n \in last.out :
        /\ m.name = "transfer_cancelled"
        /\ n.name = "user_left"
        /\ n.room = m.room
        /\ m.room \notin DOMAIN rooms

\* the room map after leave_room(pin, s) has been applied for every pin of S
RECURSIVE LeaveEach(_, _, _, _)
LeaveEach(rs, gs, S, s) ==
    IF S = {} THEN rs
    ELSE LET pin == CHOOSE x \in S : TRUE
             r == LeaveRoomResult(rs, gs, pin, s)
         IN  LeaveEach(r.rooms, r.groups, S \ {pin}, s)

\* C14: after the disconnect of a connection no participant list holds it,
\* in however many rooms it was listed; the room map the disconnect leaves is
\* the one leave_room leaves when applied for every room that listed the
\* connection, and the rooms that did not list it are as they were.
C14_DisconnectIsLeaveAll ==
    /\ [](\A s \in Sockets, p \in DOMAIN rooms :
            status[s] = "closed" => s \notin SocketIds(rooms[p].participants))
    /\ [][last'.ev = "disconnect"
            => /\ rooms' = LeaveEach(rooms, groups,
                        {p \in DOMAIN rooms : IsMember(rooms, p, last'.sock)}, last'.sock)
               /\ \A p \in DOMAIN rooms :
                    ~IsMember(rooms, p, last'.sock)
                    => (p \in DOMAIN rooms' /\ rooms'[p] = rooms[p])
         ]_vars

\* C14 witness: a connection listed in two rooms has just disconnected; one
\* room was emptied and is gone, the other stays
C14_Witness ==
    /\ last.ev = "disconnect"
    /\ \E m \in last.out, n \in last.out :
        /\ m.name = "user_left"
        /\ n.name = "user_left"
        /\ m.room \notin DOMAIN rooms
        /\ n.room \in DOMAIN rooms

\* C15: incoming_file and file_received of a transfer are never delivered to
\* the connection that is the sender of that transfer.
C15_SenderNotNotified ==
    [][\A m \in last'.out :
        /\ m.name = "incoming_file"
            => /\ m.tid \in DOMAIN activeTransfers'
               /\ activeTransfers'[m.tid].from \notin m.to
        /\ m.name = "file_received"
            => /\ m.tid \in DOMAIN activeTransfers
               /\ activeTransfers[m.tid].from \notin m.to
      ]_vars

\* C15 witness: a file has just been delivered to another connection while
\* its sender is listed in two rooms and is in the group the file went to
C15_Witness ==
    \E m \in last.out :
        /\ m.name = "file_received"
        /\ m.to # {}
        /\ last.sock \in groups[m.room]
        /\ \A p \in PINS : IsMember(rooms, p, last.sock)

\* C16: a sweep deletes exactly the rooms created more than one hour before
\* it runs, populated or not, and leaves the younger rooms with their
\* participant lists, the broadcast groups and every transfer record as they
\* were.
C16_SweepFrame ==
    [][last'.ev = "sweep"
        => /\ DOMAIN rooms' = {p \in DOMAIN rooms : rooms[p].createdAt + OneHour >= now}
           /\ \A p \in DOMAIN rooms' : rooms'[p] = rooms[p]
           /\ activeTransfers' = activeTransfers
           /\ groups' = groups
      ]_vars

\* C16 witness: a sweep has just deleted a populated room that an active
\* transfer names, and kept a younger room
C16_Witness ==
    /\ last.ev = "sweep"
    /\ rooms # EmptyMap
    /\ \E t \in DOMAIN activeTransfers :
        /\ activeTransfers[t].pin \notin DOMAIN rooms
        /\ groups[activeTransfers[t].pin] # {}

C18_GroupsMatchRooms ==
    \A p \in PINS :
        groups[p] = IF p \in DOMAIN rooms THEN SocketIds(rooms[p].participants) ELSE {}

\* C19: a transfer is initiated only by a connection the room lists: every
\* successful initiate_file_transfer comes from a participant of the room it
\* names, and so does every incoming_file.
C19_SenderIsParticipant ==
    [][(last'.ev = "initiate_file_transfer" /\ last'.ack.success)
        => /\ last'.pin \in DOMAIN rooms
           /\ last'.sock \in SocketIds(rooms[last'.pin].participants)
      ]_vars

\* C20: every upload_progress goes to the sender of the transfer alone and
\* carries a percentage from 0 to 100.
C20_ProgressInRange ==
    [][\A m \in last'.out :
        m.name = "upload_progress"
        => /\ m.tid \in DOMAIN activeTransfers
           /\ m.to = {activeTransfers[m.tid].from}
           /\ m.num >= 0
           /\ m.num <= 100
      ]_vars

====
